---- MODULE Spec2Model ----
(***************************************************************************)
(* Game process launch and lifecycle tracking of faugus-launcher-rs:       *)
(*   src/src/launcher/launch_controller.rs  (GameLaunchController)         *)
(*   src/src/launcher/game_launcher.rs      (GameLauncher)                 *)
(*   src/src/gui/main_window.rs             (MainWindow::update)           *)
(*                                                                         *)
(* Two kinds of threads act on the state.  The UI thread runs              *)
(* MainWindow::update, one message at a time: launch_game, terminate_game  *)
(* and check_processes never overlap each other.  Every launch_game call   *)
(* hands an async block to the executor (Task::perform); these launch      *)
(* tasks run on other threads and interleave with the UI thread and with   *)
(* each other between any two accesses of the status map or of a file.     *)
(* Each action below is one such access (or a run of code that touches no  *)
(* shared state).                                                          *)
(***************************************************************************)
EXTENDS Integers, Sequences, FiniteSets, TLC

\* ------------------------------------------------------------------ bounds
\* launch_game calls in one run (each starts one launch task)
MaxLaunches == 2
\* OS process ids are 1..MaxPid
MaxPid == 2

Titles == {"a", "b"}
Pids == 1..MaxPid

VARIABLES
    running_games,  \* GameLaunchController.running_games: title -> LaunchStatus
    regFile,        \* the file Paths::running_games_json()
    latest,         \* the lines of the file Paths::latest_games_txt()
    alive,          \* the pids in the OS process table
    lock,           \* the Mutex around running_games: Free, or who holds its guard
    tasks,          \* the async launch tasks, in the order launch_game made them;
                    \* `from` keeps the status the title had at the request
    ui,             \* the UI thread: the controller call it is inside
    launch_status   \* MainWindow.launch_status: the status the window shows for
                    \* a title; the controller does not touch it

vars == <<running_games, lock, regFile, latest, alive, tasks, ui, launch_status>>

\* ------------------------------------------------------- LaunchStatus values
NotRunning == [tag |-> "NotRunning"]
Launching == [tag |-> "Launching"]
Running(process) == [tag |-> "Running", process |-> process]
Error(msg) == [tag |-> "Error", msg |-> msg]

\* The Mutex is not locked
Free == "free"

\* running_games.lock() in a block of its own (or in one expression): the step
\* takes the lock, which must be free, reads or writes the map and drops the
\* guard at the end of the block
LockScope == lock = Free /\ lock' = Free

\* Option<T>: None and Some(x)
None == <<>>
Some(x) == <<x>>

GameProcess(title, pid) == [game_title |-> title, main_pid |-> pid, umu_pid |-> None]

\* HashMap::insert / HashMap::remove on the status map
MapInsert(m, k, v) == [x \in (DOMAIN m) \cup {k} |-> IF x = k THEN v ELSE m[x]]

\* Mutant of MapRemove: the map is cleared
MapRemove_Clearing(m, k) == [x \in {} |-> m[x]]

MapRemove(m, k) == [x \in (DOMAIN m) \ {k} |-> m[x]]

EmptyMap == [x \in {} |-> NotRunning]

\* games.get(title).cloned().unwrap_or(LaunchStatus::NotRunning)
StatusIn(games, title) == IF title \in DOMAIN games THEN games[title] ELSE NotRunning

get_status(title) == StatusIn(running_games, title)

\* ------------------------------------------------------------ registry file
\* kind: "nodir"     the parent directory does not exist (so neither does the file)
\*       "missing"   the directory exists, the file does not
\*       "malformed" the file exists and is not a JSON array of records
\*       "json"      the file holds the JSON array procs
FileNoDir == [kind |-> "nodir", procs |-> <<>>]
FileMissing == [kind |-> "missing", procs |-> <<>>]
FileMalformed == [kind |-> "malformed", procs |-> <<>>]
FileJson(procs) == [kind |-> "json", procs |-> procs]

FileExists(f) == f.kind \in {"malformed", "json"}

\* std::fs::write: fails without the parent directory, or on an I/O error (ioOk)
WriteOk(f, ioOk) == ioOk /\ f.kind # "nodir"

\* Mutant of Retain: only the first record of the title is removed
RECURSIVE Retain_First(_, _)
Retain_First(procs, title) ==
    IF procs = <<>> THEN <<>>
    ELSE IF Head(procs).game_title # title
         THEN <<Head(procs)>> \o Retain_First(Tail(procs), title)
         ELSE Tail(procs)

\* Vec::retain(|p| p.game_title != title)
RECURSIVE Retain(_, _)
Retain(procs, title) ==
    IF procs = <<>> THEN <<>>
    ELSE IF Head(procs).game_title # title
         THEN <<Head(procs)>> \o Retain(Tail(procs), title)
         ELSE Retain(Tail(procs), title)

\* Iterator::find(|p| p.game_title == title): the first match, or None
RECURSIVE Find(_, _)
Find(procs, title) ==
    IF procs = <<>> THEN None
    ELSE IF Head(procs).game_title = title THEN Some(Head(procs))
         ELSE Find(Tail(procs), title)

\* GameLauncher::get_game_process on the file f: None without the file or for
\* content that does not parse
LookupIn(f, title) ==
    IF ~FileExists(f) THEN None
    ELSE IF f.kind = "malformed" THEN None
         ELSE Find(f.procs, title)

get_game_process(title) == LookupIn(regFile, title)

\* save_process, the read half: what `processes` holds before the push
SaveRead(f) ==
    IF FileExists(f)
    THEN (IF f.kind = "json" THEN f.procs ELSE <<>>)
    ELSE <<>>

\* Mutant of SaveWrite: the record is not pushed before the write
SaveWrite_NoPush(f, procs, process, ioOk) ==
    IF WriteOk(f, ioOk) THEN FileJson(procs) ELSE f

\* Mutant of SaveWrite: the record is pushed onto what the file holds at the
\* time of the write
SaveWrite_Merging(f, procs, process, ioOk) ==
    IF WriteOk(f, ioOk) THEN FileJson(Append(SaveRead(f), process)) ELSE f

\* save_process, the push and the write
SaveWrite(f, procs, process, ioOk) ==
    IF WriteOk(f, ioOk) THEN FileJson(Append(procs, process)) ELSE f

\* Mutant of RemoveWrite: the closure of retain is the other way round
RemoveWrite_Inverted(f, procs, title, ioOk) ==
    IF WriteOk(f, ioOk)
    THEN LET OfTitle(p) == p.game_title = title IN FileJson(SelectSeq(procs, OfTitle))
    ELSE f

\* remove_process, the retain and the write
RemoveWrite(f, procs, title, ioOk) ==
    IF WriteOk(f, ioOk) THEN FileJson(Retain(procs, title)) ELSE f

\* ------------------------------------------------------- latest-games file
\* Vec<String>::retain(|g| g != title)
RECURSIVE RetainOther(_, _)
RetainOther(games, title) ==
    IF games = <<>> THEN <<>>
    ELSE IF Head(games) # title
         THEN <<Head(games)>> \o RetainOther(Tail(games), title)
         ELSE RetainOther(Tail(games), title)

LatestCap == 10

\* Vec::truncate(n)
Truncate(games, n) == IF Len(games) > n THEN SubSeq(games, 1, n) ELSE games

\* str::trim on the titles of the model: "a " is the one that ends in a blank
trim(line) == IF line = "a " THEN "a" ELSE line

\* content.lines().map(|line| line.trim().to_string()).collect()
Lines(games) == [k \in DOMAIN games |-> trim(games[k])]

\* GameLauncher::update_latest_games: read the lines (trimmed), drop the
\* title, put it first, keep 10, write; an Err leaves the file as it was
update_latest_games(games, title, ioOk) ==
    IF ioOk THEN Truncate(<<title>> \o RetainOther(Lines(games), title), LatestCap)
    ELSE games

\* -------------------------------------------------------- GameLauncher::launch
\* What the launch meets in the file system and the OS, one flag per step:
\*   prefix  the prefix directory exists or create_dir_all made it
\*   logs    the logs directory exists or create_dir_all made it
\*   umu     umu-run is at its install location or on PATH
\*   runner  validate_runner(game.runner) is Ok
\*   spawn   Command::spawn is Ok
LaunchEnvs == [prefix : BOOLEAN, logs : BOOLEAN, umu : BOOLEAN, runner : BOOLEAN, spawn : BOOLEAN]

\* An anyhow error is a chain of messages, the outermost context first; a message
\* is the sequence of the pieces format! joins.
OsError == <<"os error">>

\* anyhow::Error's Display ({}): the outermost message only
to_string(err) == Head(err)

\* Result<GameProcess>, with the steps of launch that ran to produce it
LaunchOk(process, ran) == [ok |-> TRUE, process |-> process, ran |-> ran]
LaunchErr(err, ran) == [ok |-> FALSE, err |-> err, ran |-> ran]

\* The fallible steps of launch in the order of its statements:
\* ensure_directories (prefix, then logs), get_umu_run, setup_environment
\* (validate_runner), spawn
LaunchSteps == <<"prefix", "logs", "umu", "runner", "spawn">>

\* The error a failing step returns
StepError(step, title) ==
    IF step = "prefix" THEN <<<<"Failed to create prefix: ", title>>, OsError>>
    ELSE IF step = "logs" THEN <<<<"Failed to create logs directory">>, OsError>>
    ELSE IF step = "umu" THEN <<<<"umu-run not found. Please install UMU-Launcher.">>>>
    ELSE IF step = "runner"
         THEN <<<<"Runner '", title, "' is not installed. Please install it via Proton Manager.">>>>
    ELSE <<<<"Failed to launch game: ", title>>, OsError>>

\* A step of launch that was run, and whether it returned Ok
StepRan(step, ok) == [step |-> step, ok |-> ok]

\* Mutant of StepsFrom: the launcher binary is looked up after the spawn
\* has been tried
RECURSIVE StepsFrom_SpawnFirst(_, _, _)
StepsFrom_SpawnFirst(env, steps, ran) ==
    LET order == <<"prefix", "logs", "spawn", "runner", "umu">>
        k == Len(ran) + 1 IN
    IF k > Len(order) THEN [failed |-> None, ran |-> ran]
    ELSE IF env[order[k]]
         THEN StepsFrom_SpawnFirst(env, steps, Append(ran, StepRan(order[k], TRUE)))
         ELSE [failed |-> Some(order[k]), ran |-> Append(ran, StepRan(order[k], FALSE))]

\* The statements of launch from the first of steps on: `?` returns at
\* the first step that fails; ran are the steps that were run, each with
\* its outcome
RECURSIVE StepsFrom(_, _, _)
StepsFrom(env, steps, ran) ==
    IF steps = <<>> THEN [failed |-> None, ran |-> ran]
    ELSE IF env[Head(steps)]
         THEN StepsFrom(env, Tail(steps), Append(ran, StepRan(Head(steps), TRUE)))
         ELSE [failed |-> Some(Head(steps)), ran |-> Append(ran, StepRan(Head(steps), FALSE))]

\* GameLauncher::launch
launch(title, env, pid) ==
    LET r == StepsFrom(env, LaunchSteps, <<>>) IN
    IF r.failed = None THEN LaunchOk(GameProcess(title, pid), r.ran)
    ELSE LaunchErr(StepError(r.failed[1], title), r.ran)

\* GameLauncher::is_process_running
is_process_running(pid) == pid \in alive

\* GameLauncher::terminate: kill(pid, SIGTERM) is Ok exactly for a pid in the
\* process table (ESRCH otherwise); it neither waits nor changes the table
terminate(pid) == pid \in alive

\* ------------------------------------------------------------------- Init
Idle == [pc |-> "idle"]

\* LaunchMessage, what the async block of launch_game returns
Launched(title, process) == [tag |-> "Launched", title |-> title, process |-> process]
LaunchFailed(title, error) == [tag |-> "LaunchFailed", title |-> title, error |-> error]

\* A launch task that has returned msg; ran are the steps of launch it ran
Done(msg, ran) == [pc |-> "done", msg |-> msg, ran |-> ran]

\* MainWindow::new: the window asks the new controller for the status of each
\* game, which is NotRunning
InitialStatus == [t \in Titles |-> NotRunning]

\* The registry file as a previous run can have left it, and the process a
\* stale record names, which may still be there.
InitFiles ==
    {FileNoDir, FileMissing, FileMalformed, FileJson(<<>>),
     FileJson(<<GameProcess("a", 1)>>)}

\* Mutant of Init: the controller takes the records of the registry as Running
Init_Restoring ==
    /\ regFile \in InitFiles
    /\ lock = Free
    /\ running_games =
         [t \in {regFile.procs[k].game_title : k \in DOMAIN regFile.procs} |->
            Running(Find(regFile.procs, t)[1])]
    /\ latest = <<>>
    /\ alive = {}
    /\ tasks = <<>>
    /\ ui = Idle
    /\ launch_status = InitialStatus

\* GameLaunchController::new (and MainWindow::new, which only queries it)
Init ==
    /\ running_games = EmptyMap
    /\ lock = Free
    /\ regFile \in InitFiles
    /\ latest = <<>>
    /\ alive = {}
    /\ tasks = <<>>
    /\ ui = Idle
    /\ launch_status = InitialStatus

\* ------------------------------------------------- UI thread: launch_game
\* Mutant of LaunchGame: the guard is not dropped before Task::perform and
\* lives on while the launch runs
LaunchGame_HoldingLock(title) ==
    /\ ui.pc = "idle"
    /\ lock = Free
    /\ lock' = "launch_game"
    /\ Len(tasks) < MaxLaunches
    /\ running_games' = MapInsert(running_games, title, Launching)
    /\ tasks' = Append(tasks, [pc |-> "launch", title |-> title,
                               from |-> get_status(title).tag])
    /\ UNCHANGED <<regFile, latest, alive, ui, launch_status>>

\* GameDoubleClicked / PlayClicked -> launch_game: mark Launching under the
\* lock, then Task::perform the async block.
LaunchGame(title) ==
    /\ ui.pc = "idle"
    /\ LockScope
    /\ Len(tasks) < MaxLaunches
    /\ running_games' = MapInsert(running_games, title, Launching)
    /\ tasks' = Append(tasks, [pc |-> "launch", title |-> title,
                               from |-> get_status(title).tag])
    /\ UNCHANGED <<regFile, latest, alive, ui, launch_status>>

\* ------------------------------------------------------- the async block
\* The block's accesses of shared state are: the spawn (process table), the
\* read and the write of the registry file, the update of the latest-games
\* file, and the insert into the status map.  A failed launch touches nothing
\* shared before its insert, so it is one step.  The latest-games file is
\* touched by launch tasks only, right before their insert, and is taken with
\* the insert as one step.
SetTask(i, t) == tasks' = [tasks EXCEPT ![i] = t]

\* Mutant of TaskLaunchFailed: the Err arm updates the latest-games file too
TaskLaunchFailed_Recording(i) ==
    /\ tasks[i].pc = "launch"
    /\ LockScope
    /\ \E env \in LaunchEnvs :
         LET r == launch(tasks[i].title, env, 1) IN
         /\ ~r.ok
         /\ running_games' = MapInsert(running_games, tasks[i].title, Error(to_string(r.err)))
         /\ SetTask(i, Done(LaunchFailed(tasks[i].title, to_string(r.err)), r.ran))
    /\ latest' = update_latest_games(latest, tasks[i].title, TRUE)
    /\ UNCHANGED <<regFile, alive, ui, launch_status>>

\* GameLauncher::launch(&game).await returned Err: the Err arm,
\* games.insert(title, LaunchStatus::Error(e.to_string())) under the lock, and
\* LaunchMessage::LaunchFailed(title, e.to_string())
TaskLaunchFailed(i) ==
    /\ tasks[i].pc = "launch"
    /\ LockScope
    /\ \E env \in LaunchEnvs :
         LET r == launch(tasks[i].title, env, 1) IN
         /\ ~r.ok
         /\ running_games' = MapInsert(running_games, tasks[i].title, Error(to_string(r.err)))
         /\ SetTask(i, Done(LaunchFailed(tasks[i].title, to_string(r.err)), r.ran))
    /\ UNCHANGED <<regFile, latest, alive, ui, launch_status>>

\* GameLauncher::launch(&game).await returned Ok(process): the child is in the
\* process table under a pid that was free
TaskLaunched(i) ==
    /\ tasks[i].pc = "launch"
    /\ \E env \in LaunchEnvs : \E pid \in Pids \ alive :
         LET r == launch(tasks[i].title, env, pid) IN
         /\ r.ok
         /\ alive' = alive \cup {pid}
         /\ SetTask(i, [tasks[i] EXCEPT !.pc = "save_read"] @@ [process |-> r.process, ran |-> r.ran])
    /\ UNCHANGED <<lock, running_games, regFile, latest, ui, launch_status>>

\* save_process: exists / read_to_string / from_str(..).unwrap_or_default()
TaskSaveRead(i) ==
    /\ tasks[i].pc = "save_read"
    /\ SetTask(i, [tasks[i] EXCEPT !.pc = "save_write"] @@ [procs |-> SaveRead(regFile)])
    /\ UNCHANGED <<lock, running_games, regFile, latest, alive, ui, launch_status>>

\* Mutant of TaskSaveWrite: an Err of save_process fails the launch
TaskSaveWrite_Failing(i) ==
    /\ tasks[i].pc = "save_write"
    /\ LockScope
    /\ \E ioOk \in BOOLEAN :
         /\ regFile' = SaveWrite(regFile, tasks[i].procs, tasks[i].process, ioOk)
         /\ IF WriteOk(regFile, ioOk)
            THEN /\ SetTask(i, [pc |-> "latest", title |-> tasks[i].title,
                                from |-> tasks[i].from, process |-> tasks[i].process,
                                ran |-> tasks[i].ran, saved |-> TRUE])
                 /\ UNCHANGED running_games
            ELSE /\ SetTask(i, Done(LaunchFailed(tasks[i].title, <<"write failed">>),
                                    tasks[i].ran))
                 /\ running_games' = MapInsert(running_games, tasks[i].title,
                                               Error(<<"write failed">>))
    /\ UNCHANGED <<latest, alive, ui, launch_status>>

\* save_process: push, to_string_pretty, fs::write; the caller logs an Err
TaskSaveWrite(i) ==
    /\ tasks[i].pc = "save_write"
    /\ \E ioOk \in BOOLEAN :
         /\ regFile' = SaveWrite(regFile, tasks[i].procs, tasks[i].process, ioOk)
         /\ SetTask(i, [pc |-> "latest", title |-> tasks[i].title, from |-> tasks[i].from,
                        process |-> tasks[i].process, ran |-> tasks[i].ran,
                        saved |-> WriteOk(regFile, ioOk)])
    /\ UNCHANGED <<lock, running_games, latest, alive, ui, launch_status>>

\* update_latest_games(&title), whose Err the caller logs, then
\* games.insert(title, LaunchStatus::Running(process)) under the lock, and
\* LaunchMessage::Launched(title, process); saved is what save_process
\* returned to the block (an Err went to the log)
TaskSetRunning(i) ==
    /\ tasks[i].pc = "latest"
    /\ LockScope
    /\ \E ioOk \in BOOLEAN : latest' = update_latest_games(latest, tasks[i].title, ioOk)
    /\ running_games' = MapInsert(running_games, tasks[i].title, Running(tasks[i].process))
    /\ SetTask(i, Done(Launched(tasks[i].title, tasks[i].process), tasks[i].ran)
                   @@ [saved |-> tasks[i].saved])
    /\ UNCHANGED <<regFile, alive, ui, launch_status>>

\* --------------------------------------------- UI thread: terminate_game
Ok == [ok |-> TRUE]
Err(msg) == [ok |-> FALSE, msg |-> msg]

\* terminate_game returning to KillProcessClicked
\* terminate_game returning to KillProcessClicked; sent: the pids the call
\* has sent SIGTERM to
TermReturn(title, result, sent) ==
    [pc |-> "ret", op |-> "terminate", title |-> title, result |-> result, sent |-> sent]

\* Mutant of terminate_game: the Result of GameLauncher::terminate is ignored
terminate_game_IgnoringSignal(title) ==
    LET status == get_status(title) IN
    IF status.tag = "Running"
    THEN [pc |-> "unmap", op |-> "terminate", title |-> title,
          sent |-> {status.process.main_pid} \cap alive]
    ELSE IF status.tag = "Launching"
         THEN TermReturn(title, Err(<<"Game is still launching, please wait">>), {})
    ELSE IF status.tag = "NotRunning"
         THEN TermReturn(title, Err(<<"Game is not running">>), {})
    ELSE TermReturn(title, Err(<<"Game launch failed">>), {})

\* Mutant of terminate_game: one error for every status that is not Running
terminate_game_OneError(title) ==
    LET status == get_status(title) IN
    IF status.tag = "Running"
    THEN IF terminate(status.process.main_pid)
         THEN [pc |-> "unmap", op |-> "terminate", title |-> title,
               sent |-> {status.process.main_pid}]
         ELSE TermReturn(title, Err(<<"Failed to terminate game: ",
                                      "Failed to send SIGTERM to process ",
                                      ToString(status.process.main_pid)>>), {})
    ELSE TermReturn(title, Err(<<"Game is not running">>), {})

\* terminate_game up to the `?` after GameLauncher::terminate: get_status, the
\* match, and for Running the signal.  The signal touches no state of the
\* model, so it is one step with the read of the status.
\* Mutant of terminate_game: a title that is Launching is dropped from the
\* status map, as a cancelled launch would be
terminate_game_CancellingLaunch(title) ==
    LET status == get_status(title) IN
    IF status.tag = "Running"
    THEN IF terminate(status.process.main_pid)
         THEN [pc |-> "unmap", op |-> "terminate", title |-> title,
               sent |-> {status.process.main_pid}]
         ELSE TermReturn(title, Err(<<"Failed to terminate game: ",
                                      "Failed to send SIGTERM to process ",
                                      ToString(status.process.main_pid)>>), {})
    ELSE IF status.tag = "Launching"
         THEN [pc |-> "unmap", op |-> "terminate", title |-> title, sent |-> {}]
    ELSE IF status.tag = "NotRunning"
         THEN TermReturn(title, Err(<<"Game is not running">>), {})
    ELSE TermReturn(title, Err(<<"Game launch failed">>), {})

terminate_game(title) ==
    LET status == get_status(title) IN
    IF status.tag = "Running"
    THEN IF terminate(status.process.main_pid)
         THEN [pc |-> "unmap", op |-> "terminate", title |-> title,
               sent |-> {status.process.main_pid}]
         ELSE TermReturn(title, Err(<<"Failed to terminate game: ",
                                      "Failed to send SIGTERM to process ",
                                      ToString(status.process.main_pid)>>), {})
    ELSE IF status.tag = "Launching"
         THEN TermReturn(title, Err(<<"Game is still launching, please wait">>), {})
    ELSE IF status.tag = "NotRunning"
         THEN TermReturn(title, Err(<<"Game is not running">>), {})
    ELSE TermReturn(title, Err(<<"Game launch failed">>), {})

\* Mutant of TerminateGame: the call waits until the signalled process is gone
TerminateGame_Waiting(title) ==
    /\ ui.pc = "idle"
    /\ LockScope
    /\ ui' = terminate_game(title)
    /\ alive' = IF ui'.pc = "unmap" THEN alive \ ui'.sent ELSE alive
    /\ UNCHANGED <<running_games, regFile, latest, tasks, launch_status>>

\* KillProcessClicked -> terminate_game
TerminateGame(title) ==
    /\ ui.pc = "idle"
    /\ LockScope
    /\ ui' = terminate_game(title)
    /\ UNCHANGED <<running_games, regFile, latest, alive, tasks, launch_status>>

\* ------------------------------------------- UI thread: check_processes
\* Mutant of DeadGames: the liveness test is inverted
DeadGames_Inverted == {t \in DOMAIN running_games :
                          /\ running_games[t].tag = "Running"
                          /\ is_process_running(running_games[t].process.main_pid)}

\* Mutant of DeadGames: the liveness of the pid is not looked at
DeadGames_AllRunning == {t \in DOMAIN running_games : running_games[t].tag = "Running"}

\* The scan under the lock: the Running titles whose pid is not alive
DeadGames == {t \in DOMAIN running_games :
                 /\ running_games[t].tag = "Running"
                 /\ ~is_process_running(running_games[t].process.main_pid)}

\* The orders a HashMap iteration can give the titles of a set
Orders(S) == {q \in [1..Cardinality(S) -> S] : \A i, j \in DOMAIN q : i # j => q[i] # q[j]}

\* check_processes returning to Tick
SweepReturn(dead) == [pc |-> "ret", op |-> "sweep", dead |-> dead]

\* The for loop over dead_games: on_process_exited for the next title, or return
SweepNext(dead, k) ==
    IF k <= Len(dead)
    THEN [pc |-> "unmap", op |-> "sweep", title |-> dead[k], dead |-> dead, k |-> k]
    ELSE SweepReturn(dead)

CheckProcesses ==
    /\ ui.pc = "idle"
    /\ LockScope
    /\ \E dead \in Orders(DeadGames) : ui' = SweepNext(dead, 1)
    /\ UNCHANGED <<running_games, regFile, latest, alive, tasks, launch_status>>

\* --------------------------------------------- UI thread: terminate_all
\* get_running_games: the titles whose status is Running, read under the lock
RunningTitles == {t \in DOMAIN running_games : running_games[t].tag = "Running"}

\* terminate_all inside its for loop, or through with it: running is the
\* snapshot get_running_games gave, results the Results of the terminate_game
\* calls made so far (each discarded by `let _ =`), kills the number of times
\* kill_all_wine_processes has been called
AllNext(running, k, results) ==
    [pc |-> IF k <= Len(running) THEN "all_term" ELSE "all_kill",
     op |-> "terminate_all", running |-> running, k |-> k, results |-> results,
     kills |-> 0]

\* KillAllProcesses -> terminate_all: get_running_games
TerminateAll ==
    /\ ui.pc = "idle"
    /\ LockScope
    /\ \E running \in Orders(RunningTitles) : ui' = AllNext(running, 1, <<>>)
    /\ UNCHANGED <<running_games, regFile, latest, alive, tasks, launch_status>>

\* Mutant of AllTerminate: the loop is left at the first failed terminate_game
AllTerminate_Aborting ==
    /\ ui.pc = "all_term"
    /\ LockScope
    /\ LET r == terminate_game(ui.running[ui.k]) IN
       ui' = IF r.pc = "unmap"
             THEN [pc |-> "unmap", op |-> "terminate_all", title |-> r.title,
                   sent |-> r.sent, running |-> ui.running, k |-> ui.k,
                   results |-> ui.results, kills |-> 0]
             ELSE AllNext(ui.running, Len(ui.running) + 1, Append(ui.results, r.result))
    /\ UNCHANGED <<running_games, regFile, latest, alive, tasks, launch_status>>

\* terminate_all: `let _ = self.terminate_game(&title)` up to the signal
AllTerminate ==
    /\ ui.pc = "all_term"
    /\ LockScope
    /\ LET r == terminate_game(ui.running[ui.k]) IN
       ui' = IF r.pc = "unmap"
             THEN [pc |-> "unmap", op |-> "terminate_all", title |-> r.title,
                   sent |-> r.sent, running |-> ui.running, k |-> ui.k,
                   results |-> ui.results, kills |-> 0]
             ELSE AllNext(ui.running, ui.k + 1, Append(ui.results, r.result))
    /\ UNCHANGED <<running_games, regFile, latest, alive, tasks, launch_status>>

\* GameLauncher::kill_all_wine_processes: kills the Wine runtime processes by
\* name.  The tracked main pids are the umu-run shims, which it does not name:
\* the process table of main pids is as before.
kill_all_wine_processes(procs) == procs

\* terminate_all after the loop: kill_all_wine_processes(), then return
AllKill ==
    /\ ui.pc = "all_kill"
    /\ alive' = kill_all_wine_processes(alive)
    /\ ui' = [pc |-> "ret", op |-> "terminate_all", running |-> ui.running,
              results |-> ui.results, kills |-> ui.kills + 1]
    /\ UNCHANGED <<lock, running_games, regFile, latest, tasks, launch_status>>

\* -------------------- on_process_exited and the tail of terminate_game
\* What follows remove_process in the caller: terminate_game returns Ok(()),
\* to KillProcessClicked or into the loop of terminate_all; check_processes
\* goes on with the next dead title.  All discard the Result of remove_process.
\* rm is that Result.
AfterRemove(rm) ==
    [rm |-> rm] @@
    (IF ui.op = "terminate" THEN TermReturn(ui.title, Ok, ui.sent)
     ELSE IF ui.op = "terminate_all"
          THEN AllNext(ui.running, ui.k + 1, Append(ui.results, Ok))
     ELSE SweepNext(ui.dead, ui.k + 1))

\* remove_process up to its read: Ok(()) without the file; the `?` after
\* from_str returns the error of content that does not parse; else the
\* records read
RemoveRead(f) ==
    IF ~FileExists(f) THEN [returned |-> TRUE, result |-> Ok]
    ELSE IF f.kind = "malformed"
         THEN [returned |-> TRUE, result |-> Err(<<"expected value at line 1 column 1">>)]
    ELSE [returned |-> FALSE, procs |-> f.procs]

\* on_process_exited / the tail of terminate_game: games.remove(title) under
\* the lock, then remove_process up to its read
Unmap ==
    /\ ui.pc = "unmap"
    /\ LockScope
    /\ running_games' = MapRemove(running_games, ui.title)
    /\ ui' = IF RemoveRead(regFile).returned
             THEN AfterRemove(RemoveRead(regFile).result)
             ELSE [ui EXCEPT !.pc = "rm_write"] @@ [procs |-> RemoveRead(regFile).procs]
    /\ UNCHANGED <<regFile, latest, alive, tasks, launch_status>>

\* remove_process: retain, to_string_pretty, fs::write
RemoveWriteStep ==
    /\ ui.pc = "rm_write"
    /\ \E ioOk \in BOOLEAN :
         /\ regFile' = RemoveWrite(regFile, ui.procs, ui.title, ioOk)
         /\ ui' = AfterRemove(IF WriteOk(regFile, ioOk) THEN Ok ELSE Err(<<"os error">>))
    /\ UNCHANGED <<lock, running_games, latest, alive, tasks, launch_status>>

\* The call of the controller returns to its caller
UIReturn ==
    /\ ui.pc = "ret"
    /\ ui' = Idle
    /\ UNCHANGED <<lock, running_games, regFile, latest, alive, tasks, launch_status>>

\* ------------------------------------------------------------ environment
\* A process of the table exits
ProcessExit(pid) ==
    /\ pid \in alive
    /\ alive' = alive \ {pid}
    /\ UNCHANGED <<lock, running_games, regFile, latest, tasks, ui, launch_status>>

\* ------------------------------------------------------------------- Next
Next ==
    \/ \E title \in Titles : LaunchGame(title)
    \/ \E i \in DOMAIN tasks : TaskLaunchFailed(i)
    \/ \E i \in DOMAIN tasks : TaskLaunched(i)
    \/ \E i \in DOMAIN tasks : TaskSaveRead(i)
    \/ \E i \in DOMAIN tasks : TaskSaveWrite(i)
    \/ \E i \in DOMAIN tasks : TaskSetRunning(i)
    \/ \E title \in Titles : TerminateGame(title)
    \/ CheckProcesses
    \/ TerminateAll
    \/ AllTerminate
    \/ AllKill
    \/ Unmap
    \/ RemoveWriteStep
    \/ UIReturn
    \/ \E pid \in Pids : ProcessExit(pid)

Spec == Init /\ [][Next]_vars

\* The async block of launch_game, which Task::perform hands to the executor:
\* the executor polls it until it has returned, so each of its steps is
\* taken once it can be.
LaunchTask(i) ==
    /\ i \in DOMAIN tasks
    /\ \/ TaskLaunchFailed(i)
       \/ TaskLaunched(i)
       \/ TaskSaveRead(i)
       \/ TaskSaveWrite(i)
       \/ TaskSetRunning(i)

SpecFair == Init /\ [][Next]_vars /\ \A i \in 1..MaxLaunches : WF_vars(LaunchTask(i))

\* The controller with its periodic sweep: the Tick subscription sends its
\* message again and again and update handles it whenever the UI thread is
\* free, a call the UI thread is inside runs to its return, and the
\* executor runs the launch tasks.
SpecSweep ==
    /\ Init
    /\ [][Next]_vars
    /\ SF_vars(CheckProcesses)
    /\ WF_vars(Unmap)
    /\ WF_vars(RemoveWriteStep)
    /\ WF_vars(UIReturn)
    /\ WF_vars(AllTerminate)
    /\ WF_vars(AllKill)
    /\ \A i \in 1..MaxLaunches : WF_vars(LaunchTask(i))

\* ------------------------------------------ the latest-games list alone
\* Launches of games whose titles the user typed with or without a blank at
\* the end (add_game_dialog keeps the title as typed), over a latest-games
\* file that is new or that earlier launches have filled.
TypedTitles == {"a ", "b"}

OldTen == <<"t1", "t2", "t3", "t4", "t5", "t6", "t7", "t8", "t9", "t10">>

LatestFiles == {<<>>, <<"b">>, OldTen}

InitLatest ==
    /\ running_games = EmptyMap
    /\ lock = Free
    /\ regFile = FileMissing
    /\ latest \in LatestFiles
    /\ alive = {}
    /\ tasks = <<>>
    /\ ui = Idle
    /\ launch_status = InitialStatus

NextLatest ==
    \/ \E title \in TypedTitles : LaunchGame(title)
    \/ \E i \in DOMAIN tasks : TaskLaunchFailed(i)
    \/ \E i \in DOMAIN tasks : TaskLaunched(i)
    \/ \E i \in DOMAIN tasks : TaskSaveRead(i)
    \/ \E i \in DOMAIN tasks : TaskSaveWrite(i)
    \/ \E i \in DOMAIN tasks : TaskSetRunning(i)

SpecLatest == InitLatest /\ [][NextLatest]_vars

\* -------------------------------------------------- MainWindow::update
\* The window over its controller: the handlers of MainWindow::update, each
\* with what it does to launch_status.  A handler that calls the controller
\* is inside that call (ui) until the call returns.

\* MainWindow::update_launch_status
update_launch_status(shown, title, status) == [shown EXCEPT ![title] = status]

\* view_sidebar: the button of the selected game is Stop, and sends
\* KillProcessClicked, when its shown status is Running or Launching; else
\* it is Play or Retry and sends PlayClicked
StopShown(title) == launch_status[title].tag \in {"Running", "Launching"}

\* Message::GameDoubleClicked: launch_game, and the task it returns
GameDoubleClicked(title) == LaunchGame(title)

\* Message::PlayClicked for the selected game
PlayClicked(title) ==
    /\ ~StopShown(title)
    /\ LaunchGame(title)

\* Message::KillProcessClicked for the selected game: terminate_game, whose
\* Err is printed
KillProcessClicked(title) ==
    /\ StopShown(title)
    /\ TerminateGame(title)

\* Message::Tick: check_processes
Tick == CheckProcesses

\* Tick, after check_processes has returned: NotRunning is shown for each
\* title of the result.  KillProcessClicked does nothing after
\* terminate_game has returned.
RECURSIVE ShowNotRunning(_, _)
ShowNotRunning(shown, dead) ==
    IF dead = <<>> THEN shown
    ELSE ShowNotRunning(update_launch_status(shown, Head(dead), NotRunning), Tail(dead))

UpdateDone ==
    /\ ui.pc = "ret"
    /\ ui' = Idle
    /\ launch_status' = IF ui.op = "sweep"
                        THEN ShowNotRunning(launch_status, ui.dead)
                        ELSE launch_status
    /\ UNCHANGED <<lock, running_games, regFile, latest, alive, tasks>>

\* Message::LaunchMessage: the message a launch task returned reaches
\* update, which shows Running(process) for Launched and Error(error) for
\* LaunchFailed
LaunchMessage(i) ==
    /\ ui.pc = "idle"
    /\ tasks[i].pc = "done"
    /\ SetTask(i, [tasks[i] EXCEPT !.pc = "delivered"])
    /\ launch_status' =
         update_launch_status(launch_status, tasks[i].msg.title,
                              IF tasks[i].msg.tag = "Launched"
                              THEN Running(tasks[i].msg.process)
                              ELSE Error(tasks[i].msg.error))
    /\ UNCHANGED <<lock, running_games, regFile, latest, alive, ui>>

InitUI ==
    /\ running_games = EmptyMap
    /\ lock = Free
    /\ regFile = FileMissing
    /\ latest = <<>>
    /\ alive = {}
    /\ tasks = <<>>
    /\ ui = Idle
    /\ launch_status = InitialStatus

NextUI ==
    \/ \E title \in Titles : GameDoubleClicked(title)
    \/ \E title \in Titles : PlayClicked(title)
    \/ \E title \in Titles : KillProcessClicked(title)
    \/ Tick
    \/ Unmap
    \/ RemoveWriteStep
    \/ UpdateDone
    \/ \E i \in DOMAIN tasks : LaunchMessage(i)
    \/ \E i \in DOMAIN tasks : TaskLaunchFailed(i)
    \/ \E i \in DOMAIN tasks : TaskLaunched(i)
    \/ \E i \in DOMAIN tasks : TaskSaveRead(i)
    \/ \E i \in DOMAIN tasks : TaskSaveWrite(i)
    \/ \E i \in DOMAIN tasks : TaskSetRunning(i)
    \/ \E pid \in Pids : ProcessExit(pid)

SpecUI == InitUI /\ [][NextUI]_vars

\* ---------------------------------------------------- remove_process alone
\* Calls of remove_process, one after the other, on a registry that parses.
MaxRecords == 3
MaxCalls == 2

\* remove_process as one call: the file it leaves and what it returns
remove_process(f, title, ioOk) ==
    LET r == RemoveRead(f) IN
    IF r.returned THEN [file |-> f, result |-> r.result]
    ELSE [file |-> RemoveWrite(f, r.procs, title, ioOk),
          result |-> IF WriteOk(f, ioOk) THEN Ok ELSE Err(<<"os error">>)]

\* The registries of up to MaxRecords records, a title more than once too
Registries ==
    {FileJson(procs) :
       procs \in UNION {[1..n -> {GameProcess(t, pid) : t \in Titles, pid \in Pids}] :
                          n \in 0..MaxRecords}}

InitRegistry ==
    /\ running_games = EmptyMap
    /\ lock = Free
    /\ regFile \in Registries
    /\ latest = <<>>
    /\ alive = {}
    /\ tasks = <<>>
    /\ ui = Idle
    /\ launch_status = InitialStatus

\* The n-th call: ui keeps its title and its result
RemoveProcess(title) ==
    /\ ui.pc \in {"idle", "removed"}
    /\ (IF ui.pc = "idle" THEN 0 ELSE ui.n) < MaxCalls
    /\ \E ioOk \in BOOLEAN :
         LET r == remove_process(regFile, title, ioOk) IN
         /\ regFile' = r.file
         /\ ui' = [pc |-> "removed", title |-> title, result |-> r.result,
                   n |-> (IF ui.pc = "idle" THEN 0 ELSE ui.n) + 1]
    /\ UNCHANGED <<lock, running_games, latest, alive, tasks, launch_status>>

NextRegistry == \E title \in Titles : RemoveProcess(title)

SpecRegistry == InitRegistry /\ [][NextRegistry]_vars

\* --------------------------------------------------------- runner_resolver
\* A string that is used as a path is the sequence of its components, "/"
\* first when it starts with '/'; the empty string is <<>>.
UMU_PROTON_LATEST == <<"UMU-Proton Latest">>
GE_PROTON_LATEST == <<"GE-Proton Latest (default)">>
PROTON_EM_LATEST == <<"Proton-EM Latest">>

\* PathBuf::from("/usr/share/steam/compatibilitytools.d")
SystemCompatDir == <<"/", "usr", "share", "steam", "compatibilitytools.d">>

\* Paths::steam_compat_tools_dir(): xdg_data_home()/Steam/compatibilitytools.d
steam_compat_tools_dir == <<"/", "home", ".local", "share", "Steam", "compatibilitytools.d">>

\* str::starts_with('/')
starts_with_slash(path) == path # <<>> /\ Head(path) = "/"

\* Path::join: an absolute operand replaces the base
Join(base, path) == IF starts_with_slash(path) THEN path ELSE base \o path

\* Path::exists in the filesystem fs, the set of the paths that exist
Exists(fs, path) == path \in fs

\* RunnerError::NotInstalled { name }
NotInstalled(name) == [tag |-> "NotInstalled", name |-> name]

\* Ok(value)
OkOf(value) == [ok |-> TRUE, value |-> value]

\* Mutant of resolve_runner: the system path is returned without the test
\* that it exists
resolve_runner_Unchecked(fs, name) ==
    IF name = UMU_PROTON_LATEST THEN OkOf(<<>>)
    ELSE IF name = GE_PROTON_LATEST THEN OkOf(<<"Proton-GE Latest">>)
    ELSE IF name = PROTON_EM_LATEST THEN OkOf(<<"Proton-EM Latest">>)
    ELSE IF name = <<"Proton-CachyOS">>
         THEN OkOf(SystemCompatDir \o <<"Proton-CachyOS">>)
         ELSE OkOf(name)

resolve_runner(fs, name) ==
    IF name = UMU_PROTON_LATEST THEN OkOf(<<>>)
    ELSE IF name = GE_PROTON_LATEST THEN OkOf(<<"Proton-GE Latest">>)
    ELSE IF name = PROTON_EM_LATEST THEN OkOf(<<"Proton-EM Latest">>)
    ELSE IF name = <<"Proton-CachyOS">>
            /\ Exists(fs, SystemCompatDir \o <<"Proton-CachyOS">>)
         THEN OkOf(SystemCompatDir \o <<"Proton-CachyOS">>)
         ELSE OkOf(name)

\* Mutant of validate_runner: the system directory is not looked at
validate_runner_UserOnly(fs, name) ==
    LET r == resolve_runner(fs, name) IN
    IF ~r.ok THEN r
    ELSE IF r.value = <<>> THEN Ok
    ELSE IF starts_with_slash(r.value)
         THEN (IF Exists(fs, r.value) THEN Ok ELSE Err(NotInstalled(name)))
    ELSE IF Exists(fs, Join(steam_compat_tools_dir, r.value)) THEN Ok
    ELSE Err(NotInstalled(name))

validate_runner(fs, name) ==
    LET r == resolve_runner(fs, name) IN
    IF ~r.ok THEN r
    ELSE IF r.value = <<>> THEN Ok
    ELSE IF starts_with_slash(r.value)
         THEN (IF Exists(fs, r.value) THEN Ok ELSE Err(NotInstalled(name)))
    ELSE IF Exists(fs, Join(steam_compat_tools_dir, r.value)) THEN Ok
    ELSE IF Exists(fs, Join(SystemCompatDir, r.value)) THEN Ok
    ELSE Err(NotInstalled(name))

\* The runner names of the game descriptors: the three entries of the runner
\* list that stand for a latest build, the system Proton, an installed
\* build by its directory name, a build given by its path, and no name
RunnerNames ==
    {UMU_PROTON_LATEST, GE_PROTON_LATEST, PROTON_EM_LATEST, <<"Proton-CachyOS">>,
     <<"GE-Proton9-1">>, <<"/", "opt", "proton">>, <<>>}

\* The paths that can be there or not when a runner is looked for
RunnerPaths ==
    {SystemCompatDir \o <<"Proton-CachyOS">>,
     steam_compat_tools_dir \o <<"Proton-CachyOS">>,
     steam_compat_tools_dir \o <<"Proton-GE Latest">>,
     SystemCompatDir \o <<"Proton-EM Latest">>,
     SystemCompatDir \o <<"GE-Proton9-1">>,
     <<"/", "opt", "proton">>}

\* A call of each of the two functions for a runner name in a filesystem
InitRunner ==
    /\ running_games = EmptyMap
    /\ lock = Free
    /\ regFile = FileMissing
    /\ latest = <<>>
    /\ alive = {}
    /\ ui = Idle
    /\ launch_status = InitialStatus
    /\ \E name \in RunnerNames : \E fs \in SUBSET RunnerPaths :
         tasks = <<[pc |-> "runner", name |-> name, fs |-> fs]>>

RunnerCalls(i) ==
    /\ tasks[i].pc = "runner"
    /\ SetTask(i, [pc |-> "runner_done", name |-> tasks[i].name, fs |-> tasks[i].fs,
                   resolved |-> resolve_runner(tasks[i].fs, tasks[i].name),
                   validated |-> validate_runner(tasks[i].fs, tasks[i].name)])
    /\ UNCHANGED <<lock, running_games, regFile, latest, alive, ui, launch_status>>

NextRunner == \E i \in DOMAIN tasks : RunnerCalls(i)

SpecRunner == InitRunner /\ [][NextRunner]_vars

\* --------------------------------------------------------- build_arguments
\* An argument string is the sequence of its characters.
\* char::is_whitespace, for the characters of ArgChars
is_whitespace(c) == c \in {" ", "\t"}

\* str::split_whitespace: the maximal runs of characters that are not
\* whitespace, in order; cur is the run being read, out the runs read
RECURSIVE SplitScan(_, _, _)
SplitScan(s, cur, out) ==
    IF s = <<>> THEN (IF cur = <<>> THEN out ELSE Append(out, cur))
    ELSE IF is_whitespace(Head(s))
         THEN SplitScan(Tail(s), <<>>, IF cur = <<>> THEN out ELSE Append(out, cur))
         ELSE SplitScan(Tail(s), Append(cur, Head(s)), out)

split_whitespace(s) == SplitScan(s, <<>>, <<>>)

\* Path::to_string_lossy: a byte sequence that is not UTF-8 becomes U+FFFD
to_string_lossy(path) ==
    [k \in DOMAIN path |-> IF path[k] = "\\xFF" THEN "U+FFFD" ELSE path[k]]

\* Mutant of build_arguments: the game arguments come before the launch
\* arguments
build_arguments_GameFirst(game) ==
    <<to_string_lossy(game.path)>>
      \o (IF game.game_arguments # <<>> THEN split_whitespace(game.game_arguments) ELSE <<>>)
      \o (IF game.launch_arguments # <<>> THEN split_whitespace(game.launch_arguments) ELSE <<>>)

build_arguments(game) ==
    <<to_string_lossy(game.path)>>
      \o (IF game.launch_arguments # <<>> THEN split_whitespace(game.launch_arguments) ELSE <<>>)
      \o (IF game.game_arguments # <<>> THEN split_whitespace(game.game_arguments) ELSE <<>>)

MaxArgLen == 3
ArgChars == {"x", "-", " ", "\t"}

\* The argument strings of up to MaxArgLen characters
ArgStrings == UNION {[1..n -> ArgChars] : n \in 0..MaxArgLen}

\* The executable paths, which games.json gives as UTF-8 strings: one with a
\* blank in it and one without
GamePaths == {<<"g", " ", "x">>, <<"g">>}

InitArgs ==
    /\ running_games = EmptyMap
    /\ lock = Free
    /\ regFile = FileMissing
    /\ latest = <<>>
    /\ alive = {}
    /\ ui = Idle
    /\ launch_status = InitialStatus
    /\ \E path \in GamePaths : \E la \in ArgStrings : \E ga \in ArgStrings :
         tasks = <<[pc |-> "args",
                    game |-> [path |-> path, launch_arguments |-> la,
                              game_arguments |-> ga]]>>

BuildArguments(i) ==
    /\ tasks[i].pc = "args"
    /\ SetTask(i, [pc |-> "args_done", game |-> tasks[i].game,
                   args |-> build_arguments(tasks[i].game)])
    /\ UNCHANGED <<lock, running_games, regFile, latest, alive, ui, launch_status>>

NextArgs == \E i \in DOMAIN tasks : BuildArguments(i)

SpecArgs == InitArgs /\ [][NextArgs]_vars

\* ------------------------------------------------------- setup_environment
\* The system a launch finds is sys: the paths that exist (fs), what
\* Paths::mangohud, Paths::gamemoderun and Paths::find_lossless_dll return,
\* and the settings the configuration file holds (None when it cannot be
\* read).  The environment of the command is a map from variable to value.

\* Command::env(key, val): a later call for the same key replaces the value
cmd_env(env, key, val) == MapInsert(env, key, val)

\* Paths::mangohud() and Paths::gamemoderun(): find_binary over PATH
MangohudBin == <<"/", "usr", "bin", "mangohud">>
GamemoderunBin == <<"/", "usr", "bin", "gamemoderun">>
mangohud(sys) == sys.mangohud
gamemoderun(sys) == sys.gamemoderun

\* Paths::find_lossless_dll(): the library of the frame generation at the
\* location the user configured, if it is found
LosslessDll == <<"/", "opt", "lossless", "Lossless.dll">>
find_lossless_dll(sys) == sys.lossless_dll

\* std::fs::read_to_string(Paths::config_file()) is Ok(config) and
\* config.contains(setting)
config_contains(sys, setting) == sys.config # None /\ setting \in sys.config[1]

\* Mutant of ProtonPathRule: PROTONPATH is set for the empty runner too
ProtonPathRule_Always(env, runner) == cmd_env(env, "PROTONPATH", runner)

ProtonPathRule(env, runner) ==
    IF runner # <<>> THEN cmd_env(env, "PROTONPATH", runner) ELSE env

\* Mutant of MangoHudRule: the variable is set without looking for the
\* helper
MangoHudRule_Unchecked(env, sys, game) ==
    IF game.mangohud THEN cmd_env(env, "MANGOHUD", "1") ELSE env

MangoHudRule(env, sys, game) ==
    IF game.mangohud /\ mangohud(sys) # None
    THEN cmd_env(env, "MANGOHUD", "1")
    ELSE env

GameModeRule(env, sys, game) ==
    IF game.gamemode /\ gamemoderun(sys) # None
    THEN cmd_env(env, "LD_PRELOAD", to_string_lossy(gamemoderun(sys)[1]))
    ELSE env

HidrawRule(env, game) ==
    IF game.disable_hidraw THEN cmd_env(env, "WINE_DISABLE_DISABLE_HIDRAW", "1") ELSE env

ConfigRule(env, sys, setting, key, val) ==
    IF config_contains(sys, setting) THEN cmd_env(env, key, val) ELSE env

LosslessRule(env, sys, game) ==
    IF game.lossless_enabled /\ find_lossless_dll(sys) # None
    THEN cmd_env(cmd_env(env, "WINEDLLOVERRIDES", "dxgi=n"),
                 "LD_PRELOAD", to_string_lossy(find_lossless_dll(sys)[1]))
    ELSE env

ProtonfixRule(env, game) ==
    IF game.protonfix # ""
    THEN cmd_env(cmd_env(env, "PROTON_NO_FSYNC", "1"), "PROTON_NO_ESYNC", "1")
    ELSE env

LoggingRule(env, sys) ==
    IF config_contains(sys, "enable-logging=true")
    THEN cmd_env(cmd_env(env, "WINEDEBUG", "+all"),
                 "WINE_MONO_TRACE", "E:System.Windows.Forms")
    ELSE env

\* GameLauncher::setup_environment: Err of validate_runner, or the
\* environment after the rules in the order of the code
setup_environment(sys, game) ==
    LET validated == validate_runner(sys.fs, game.runner)
        runner == resolve_runner(sys.fs, game.runner)
        e1 == cmd_env(EmptyMap, "WINEPREFIX", game.prefix)
        e2 == ProtonPathRule(e1, runner.value)
        e3 == cmd_env(e2, "GAMEID", game.gameid)
        e4 == MangoHudRule(e3, sys, game)
        e5 == GameModeRule(e4, sys, game)
        e6 == HidrawRule(e5, game)
        e7 == ConfigRule(e6, sys, "wayland-driver=true", "PROTON_USE_WINE_DXGI", "1")
        e8 == ConfigRule(e7, sys, "enable-hdr=true", "ENABLE_HDR", "1")
        e9 == ConfigRule(e8, sys, "enable-wow64=true", "WINEARCH", "win64")
        e10 == LosslessRule(e9, sys, game)
        e11 == ConfigRule(e10, sys, "discrete-gpu=true", "__GLX_VENDOR_LIBRARY_NAME", "nvidia")
        e12 == ProtonfixRule(e11, game)
    IN IF ~validated.ok THEN validated
       ELSE IF ~runner.ok THEN runner
       ELSE OkOf(LoggingRule(e12, sys))

\* The descriptors: a runner that needs no path, one by its directory name
\* and the system Proton; every combination of the four toggles; with and
\* without a protonfix
EnvGames ==
    [prefix : {<<"/", "home", "prefix">>},
     gameid : {"game-1"},
     runner : {UMU_PROTON_LATEST, <<"GE-Proton9-1">>, <<"Proton-CachyOS">>},
     mangohud : BOOLEAN, gamemode : BOOLEAN, disable_hidraw : BOOLEAN,
     lossless_enabled : BOOLEAN,
     protonfix : {"", "https://example.org/fix"}]

ConfigSettings ==
    {"wayland-driver=true", "enable-hdr=true", "enable-wow64=true",
     "discrete-gpu=true", "enable-logging=true"}

\* The systems: the two runners installed or not, each helper found or
\* not, the configuration file unreadable, or holding none, one or all of
\* the settings
EnvSystems ==
    [fs : SUBSET {SystemCompatDir \o <<"GE-Proton9-1">>,
                  SystemCompatDir \o <<"Proton-CachyOS">>},
     mangohud : {None, Some(MangohudBin)},
     gamemoderun : {None, Some(GamemoderunBin)},
     lossless_dll : {None, Some(LosslessDll)},
     config : {None, Some({}), Some(ConfigSettings)}
                \cup {Some({c}) : c \in ConfigSettings}]

InitEnv ==
    /\ running_games = EmptyMap
    /\ lock = Free
    /\ regFile = FileMissing
    /\ latest = <<>>
    /\ alive = {}
    /\ ui = Idle
    /\ launch_status = InitialStatus
    /\ \E game \in EnvGames : \E sys \in EnvSystems :
         tasks = <<[pc |-> "env", game |-> game, sys |-> sys]>>

SetupEnvironment(i) ==
    /\ tasks[i].pc = "env"
    /\ SetTask(i, [pc |-> "env_done", game |-> tasks[i].game, sys |-> tasks[i].sys,
                   result |-> setup_environment(tasks[i].sys, tasks[i].game)])
    /\ UNCHANGED <<lock, running_games, regFile, latest, alive, ui, launch_status>>

NextEnv == \E i \in DOMAIN tasks : SetupEnvironment(i)

SpecEnv == InitEnv /\ [][NextEnv]_vars

\* =================================================================== claims
\* The file f holds a record of the title with this main_pid
HasRecord(f, title, pid) ==
    /\ f.kind = "json"
    /\ \E k \in DOMAIN f.procs :
         f.procs[k].game_title = title /\ f.procs[k].main_pid = pid

\* The run has made n launches and all their tasks have returned
AllDone(n) == Len(tasks) = n /\ \A i \in DOMAIN tasks : tasks[i].pc = "done"

\* Step predicates: which step of which call the transition is
IsSpawn(i) == i \in DOMAIN tasks /\ tasks[i].pc = "launch" /\ tasks'[i].pc = "save_read"
IsSaveWrite(i) == i \in DOMAIN tasks /\ tasks[i].pc = "save_write" /\ tasks'[i].pc = "latest"
IsSetRunning(i) == i \in DOMAIN tasks /\ tasks[i].pc = "latest" /\ tasks'[i].pc = "done"
IsLaunchFailed(i) == i \in DOMAIN tasks /\ tasks[i].pc = "launch" /\ tasks'[i].pc = "done"
IsLaunchRequest == Len(tasks') = Len(tasks) + 1
IsTerminateCall(title) ==
    ui.pc = "idle" /\ ui'.pc # "idle" /\ ui'.op = "terminate" /\ ui'.title = title
IsSweepScan == ui.pc = "idle" /\ ui'.pc # "idle" /\ ui'.op = "sweep"
IsUnmap(op) == ui.pc = "unmap" /\ ui.op = op /\ ui' # ui
\* on_process_exited / the tail of terminate_game is through with remove_process
IsRemoveDone(op) ==
    /\ ui.pc \in {"unmap", "rm_write"}
    /\ ui.op = op
    /\ ui' # ui
    /\ ui'.pc # "rm_write"

\* ---------------------------------------------------------------------- C1
\* C1 as stated: a launch requested from NotRunning whose spawn succeeded ends
\* (the status insert of its task) with the title's status Running(record),
\* record carrying the title and the spawned pid, and with the registry
\* holding a record of that title with the same main_pid.  Stated for the runs
\* in which the registry's directory exists.
C1_LaunchedEndsRunningAndPersisted ==
    [][\A i \in DOMAIN tasks :
         (IsSetRunning(i) /\ tasks[i].from = "NotRunning" /\ regFile.kind # "nodir") =>
           /\ StatusIn(running_games', tasks[i].title) = Running(tasks[i].process)
           /\ tasks[i].process.game_title = tasks[i].title
           /\ HasRecord(regFile', tasks[i].title, tasks[i].process.main_pid)]_vars

\* C1, amended: the launch ends with status Running(record), record carrying
\* the title and the pid the spawn put into the process table; the registry
\* holds a record of the title with that main_pid right after save_process
\* whenever save_process returned Ok.  (A failed write is only logged.)
C1_LaunchedEndsRunning ==
    [][\A i \in DOMAIN tasks :
         /\ IsSpawn(i) =>
              /\ tasks'[i].process.game_title = tasks[i].title
              /\ tasks'[i].process.main_pid \in alive' \ alive
         /\ (IsSaveWrite(i) /\ tasks'[i].saved) =>
              /\ tasks'[i].process = tasks[i].process
              /\ HasRecord(regFile', tasks[i].title, tasks[i].process.main_pid)
         /\ IsSetRunning(i) =>
              StatusIn(running_games', tasks[i].title) = Running(tasks[i].process)]_vars

\* A first launch, of a, is through: a is Running(record) and the registry
\* holds the record
C1_Witness ==
    /\ AllDone(1)
    /\ get_status("a").tag = "Running"
    /\ get_status("a").process.game_title = "a"
    /\ HasRecord(regFile, "a", get_status("a").process.main_pid)
    /\ get_status("a").process.main_pid \in alive

\* ---------------------------------------------------------------------- C2
\* C2: a launch that fails (directory creation, binary lookup, runner
\* validation or spawn) ends with the title's status Error(message), message
\* not empty, and neither its request nor its failing leaves the registry
\* file or the latest-games list changed.
C2_FailedLaunchIsErrorOnly ==
    [][/\ IsLaunchRequest => (regFile' = regFile /\ latest' = latest)
       /\ \A i \in DOMAIN tasks :
            IsLaunchFailed(i) =>
              /\ StatusIn(running_games', tasks[i].title).tag = "Error"
              /\ StatusIn(running_games', tasks[i].title).msg # <<>>
              /\ \A k \in DOMAIN StatusIn(running_games', tasks[i].title).msg :
                   StatusIn(running_games', tasks[i].title).msg[k] # ""
              /\ regFile' = regFile
              /\ latest' = latest]_vars

\* Both launches of the run failed, a's at the binary lookup and b's at the
\* spawn; nothing was persisted
C2_Witness ==
    /\ AllDone(2)
    /\ get_status("a") = Error(<<"umu-run not found. Please install UMU-Launcher.">>)
    /\ get_status("b") = Error(<<"Failed to launch game: ", "b">>)
    /\ regFile = FileMissing
    /\ latest = <<>>

\* ---------------------------------------------------------------------- C3
\* C3: the registry holds at most one Process Record per title.
C3_OneRecordPerTitle ==
    \A j, k \in DOMAIN regFile.procs :
        j # k => regFile.procs[j].game_title # regFile.procs[k].game_title

\* ---------------------------------------------------------------------- C4
\* The title is Running and its main_pid is not in the process table
RunningDead(title) ==
    /\ StatusIn(running_games, title).tag = "Running"
    /\ StatusIn(running_games, title).process.main_pid \notin alive

InSeq(q, x) == \E k \in DOMAIN q : q[k] = x

\* C4 as stated: one call of check_processes has every Running title with a
\* dead main_pid in its result, and when it returns each title of the result
\* has status NotRunning and no record in the registry.
C4_SweepReconciles ==
    [][/\ IsSweepScan => \A t \in Titles : RunningDead(t) => InSeq(ui'.dead, t)
       /\ (ui.pc # "idle" /\ ui.op = "sweep" /\ ui.pc # "ret" /\ ui'.pc = "ret") =>
            \A k \in DOMAIN ui'.dead :
                /\ StatusIn(running_games', ui'.dead[k]) = NotRunning
                /\ LookupIn(regFile', ui'.dead[k]) = None]_vars

\* C4, amended: one call of check_processes has every Running title with a
\* dead main_pid in its result and runs on_process_exited for each title of
\* the result: it removes the title from the status map (get_status is
\* NotRunning then) and calls remove_process, after which the registry holds
\* no record of the title unless the write of the registry file failed; that
\* error is discarded and the file is then as it was.
C4_SweepRemovesDead ==
    [][/\ IsSweepScan => \A t \in Titles : RunningDead(t) => InSeq(ui'.dead, t)
       /\ IsUnmap("sweep") =>
            /\ InSeq(ui.dead, ui.title)
            /\ StatusIn(running_games', ui.title) = NotRunning
       /\ IsRemoveDone("sweep") =>
            /\ \/ LookupIn(regFile', ui.title) = None
               \/ ui.pc = "rm_write" /\ regFile' = regFile
            /\ ui'.pc = "ret" => ui.k = Len(ui.dead)
            /\ ui'.pc # "ret" => ui'.title = ui.dead[ui.k + 1]]_vars

\* The sweep has returned a, which a launch of this run had made Running and
\* had persisted: a is NotRunning and the registry holds no record of it
C4_Witness ==
    /\ ui.pc = "ret"
    /\ ui.op = "sweep"
    /\ ui.dead = <<"a">>
    /\ AllDone(1)
    /\ latest = <<"a">>
    /\ get_status("a") = NotRunning
    /\ regFile = FileJson(<<>>)

\* ---------------------------------------------------------------------- C5
\* C5 as stated: terminate_game on a Running title whose signal was sent
\* returns Ok with the title's status NotRunning and no record of the title
\* in the registry.
C5_TerminateRemoves ==
    [][/\ \A t \in Titles :
            (IsTerminateCall(t) /\ StatusIn(running_games, t).tag = "Running"
               /\ StatusIn(running_games, t).process.main_pid \in alive) => ui'.pc = "unmap"
       /\ IsRemoveDone("terminate") =>
            /\ ui'.pc = "ret"
            /\ ui'.result = Ok
            /\ StatusIn(running_games', ui.title) = NotRunning
            /\ LookupIn(regFile', ui.title) = None]_vars

\* C5, amended: terminate_game on a Running title whose signal was sent
\* removes the title from the status map (its status is NotRunning then),
\* calls remove_process and returns Ok; the registry then holds no record of
\* the title unless the write of the registry file failed, an error that
\* terminate_game discards.
C5_TerminateUntracks ==
    [][/\ \A t \in Titles :
            (IsTerminateCall(t) /\ StatusIn(running_games, t).tag = "Running"
               /\ StatusIn(running_games, t).process.main_pid \in alive) =>
              /\ ui'.pc = "unmap"
              /\ ui'.sent = {StatusIn(running_games, t).process.main_pid}
       /\ IsUnmap("terminate") => StatusIn(running_games', ui.title) = NotRunning
       /\ IsRemoveDone("terminate") =>
            /\ ui'.pc = "ret"
            /\ ui'.result = Ok
            /\ \/ LookupIn(regFile', ui.title) = None
               \/ ui.pc = "rm_write" /\ regFile' = regFile]_vars

\* terminate_game(a) has returned Ok for a launched and persisted a: a is
\* NotRunning and the registry holds no record of it
C5_Witness ==
    /\ ui.pc = "ret"
    /\ ui.op = "terminate"
    /\ ui.title = "a"
    /\ ui.result = Ok
    /\ AllDone(1)
    /\ latest = <<"a">>
    /\ get_status("a") = NotRunning
    /\ regFile = FileJson(<<>>)

\* ---------------------------------------------------------------------- C6
\* C6: terminate_game on a Running title whose signal cannot be sent returns
\* an error and leaves the status map (the same Running(record)) and the
\* registry file as they were.
C6_FailedSignalChangesNothing ==
    [][\A t \in Titles :
         (IsTerminateCall(t) /\ StatusIn(running_games, t).tag = "Running"
            /\ StatusIn(running_games, t).process.main_pid \notin alive) =>
           /\ ui'.pc = "ret"
           /\ ~ui'.result.ok
           /\ running_games' = running_games
           /\ regFile' = regFile]_vars

\* terminate_game(a) has returned an error and a is still Running, its
\* process gone
C6_Witness ==
    /\ ui.pc = "ret"
    /\ ui.op = "terminate"
    /\ ui.title = "a"
    /\ ~ui.result.ok
    /\ RunningDead("a")
    /\ HasRecord(regFile, "a", get_status("a").process.main_pid)

\* ---------------------------------------------------------------------- C7
\* The error terminate_game has for a status that is not Running
WrongStateError(tag) ==
    IF tag = "Launching" THEN Err(<<"Game is still launching, please wait">>)
    ELSE IF tag = "NotRunning" THEN Err(<<"Game is not running">>)
    ELSE Err(<<"Game launch failed">>)

\* C7: terminate_game on a title that is NotRunning, Launching or Error
\* returns that state's error at once, sends no signal and leaves the status
\* map and the registry file as they were.
C7_TerminateRejectsWrongStates ==
    [][\A t \in Titles :
         (IsTerminateCall(t) /\ StatusIn(running_games, t).tag # "Running") =>
           /\ ui'.pc = "ret"
           /\ ui'.result = WrongStateError(StatusIn(running_games, t).tag)
           /\ ui'.sent = {}
           /\ running_games' = running_games
           /\ regFile' = regFile
           /\ alive' = alive]_vars

\* terminate_game(a) has been rejected while a's launch is in progress, its
\* child already spawned
C7_Witness ==
    /\ ui.pc = "ret"
    /\ ui.op = "terminate"
    /\ ui.title = "a"
    /\ ui.result = Err(<<"Game is still launching, please wait">>)
    /\ ui.sent = {}
    /\ get_status("a") = Launching
    /\ \E i \in DOMAIN tasks : tasks[i].pc = "save_read" /\ tasks[i].title = "a"

\* ---------------------------------------------------------------------- C8
\* C8: a launch is requested for a title only while its status is NotRunning
\* or Error; a request for a title that is Launching or Running starts no
\* launch task (no second spawn) and does not set Launching.
C8_OneLaunchInFlight ==
    [][IsLaunchRequest =>
         StatusIn(running_games, tasks'[Len(tasks')].title).tag \in {"NotRunning", "Error"}]_vars

\* ---------------------------------------------------------------------- C9
\* C9: every title with a record in the registry has status Running with the
\* record's main_pid.  Stated for the records of b: the registry has none of
\* b when the run starts, so each was written in this run.
C9_RegistrySubsetOfRunning ==
    \A k \in DOMAIN regFile.procs :
        regFile.procs[k].game_title = "b" =>
          /\ get_status("b").tag = "Running"
          /\ get_status("b").process.main_pid = regFile.procs[k].main_pid

\* --------------------------------------------------------------------- C10
\* C10 as stated: the terminate_game call that has sent the signal leaves the
\* title's status Running while the signalled process has not exited.
C10_SignalledStaysRunning ==
    [][(IsUnmap("terminate") /\ ui.sent \subseteq alive') =>
         StatusIn(running_games', ui.title) = StatusIn(running_games, ui.title)]_vars

\* C10, amended: after a successfully sent termination signal terminate_game
\* drops the title's Running status at once, whether or not the process has
\* exited; terminate itself neither waits for the exit nor escalates: the
\* call sends that one signal and leaves the process table as it is.
C10_SignalledIsDropped ==
    [][/\ IsUnmap("terminate") => StatusIn(running_games', ui.title) = NotRunning
       /\ \A t \in Titles :
            IsTerminateCall(t) =>
              /\ alive' = alive
              /\ ui'.sent = IF ui'.pc = "unmap"
                            THEN {StatusIn(running_games, t).process.main_pid}
                            ELSE {}
       /\ (ui.pc # "idle" /\ ui.pc # "ret" /\ ui.op = "terminate" /\ ui' # ui) =>
            /\ alive' = alive
            /\ ui'.sent = ui.sent]_vars

\* terminate_game has returned Ok and the title is NotRunning while the
\* process it signalled is still in the process table
C10_Witness ==
    /\ ui.pc = "ret"
    /\ ui.op = "terminate"
    /\ ui.result = Ok
    /\ ui.sent # {}
    /\ ui.sent \subseteq alive
    /\ get_status(ui.title) = NotRunning

\* --------------------------------------------------------------------- C11
IsAllScan == ui.pc = "idle" /\ ui'.pc # "idle" /\ ui'.op = "terminate_all"
\* A step of the UI thread inside terminate_all
IsAllStep == ui.pc # "idle" /\ ui.pc # "ret" /\ ui.op = "terminate_all" /\ ui' # ui

\* C11: terminate_all attempts terminate_game for every title that is Running
\* when it is called, one after the other, and goes on after a failed
\* attempt; an attempt whose signal was sent makes the title NotRunning, a
\* failed attempt leaves the status map as it is, and no step of terminate_all
\* changes the status of a title other than the one it is terminating (so the
\* titles that are Launching or Error at the call are not touched); the
\* fallback kill is issued exactly once, after all the attempts, whether or
\* not any of them failed.
C11_TerminateAllBestEffort ==
    [][/\ IsAllScan =>
            /\ {ui'.running[k] : k \in DOMAIN ui'.running} = RunningTitles
            /\ Len(ui'.running) = Cardinality(RunningTitles)
            /\ ui'.results = <<>>
            /\ ui'.kills = 0
            /\ ui'.pc = IF RunningTitles = {} THEN "all_kill" ELSE "all_term"
            /\ running_games' = running_games
       /\ (IsAllStep /\ ui.pc = "all_term") =>
            LET t == ui.running[ui.k]
                s == StatusIn(running_games, t) IN
            /\ running_games' = running_games
            /\ IF s.tag = "Running" /\ s.process.main_pid \in alive
               THEN /\ ui'.pc = "unmap"
                    /\ ui'.title = t
                    /\ ui'.k = ui.k
                    /\ ui'.sent = {s.process.main_pid}
                    /\ ui'.results = ui.results
               ELSE /\ Len(ui'.results) = Len(ui.results) + 1
                    /\ ~ui'.results[Len(ui'.results)].ok
                    /\ ui'.k = ui.k + 1
                    /\ ui'.pc = IF ui.k < Len(ui.running) THEN "all_term" ELSE "all_kill"
       /\ IsUnmap("terminate_all") =>
            /\ ui.title = ui.running[ui.k]
            /\ StatusIn(running_games', ui.title) = NotRunning
            /\ \A b \in Titles \ {ui.title} :
                 StatusIn(running_games', b) = StatusIn(running_games, b)
       /\ IsRemoveDone("terminate_all") =>
            /\ ui'.results = Append(ui.results, Ok)
            /\ ui'.k = ui.k + 1
            /\ ui'.pc = IF ui.k < Len(ui.running) THEN "all_term" ELSE "all_kill"
       /\ (IsAllStep /\ ui.pc \notin {"unmap"}) => running_games' = running_games
       /\ (IsAllStep /\ ui.pc # "all_kill") => (ui'.pc # "ret" /\ ui'.kills = 0)
       /\ (IsAllStep /\ ui.pc = "all_kill") =>
            /\ ui.k = Len(ui.running) + 1
            /\ Len(ui.results) = Len(ui.running)
            /\ ui.kills = 0
            /\ ui'.pc = "ret"
            /\ ui'.kills = 1
            /\ ui'.results = ui.results]_vars

\* terminate_all has returned after two attempts: the first, for a title
\* whose process was gone, failed and left it Running; the second was sent
\* and made its title NotRunning; the fallback kill was issued once
C11_Witness ==
    /\ ui.pc = "ret"
    /\ ui.op = "terminate_all"
    /\ Len(ui.running) = 2
    /\ ~ui.results[1].ok
    /\ ui.results[2] = Ok
    /\ ui.kills = 1
    /\ get_status(ui.running[1]).tag = "Running"
    /\ get_status(ui.running[2]) = NotRunning

\* --------------------------------------------------------------------- C12
NoDup(q) == \A j, k \in DOMAIN q : j # k => q[j] # q[k]
Without(q, x) == SelectSeq(q, LAMBDA y : y # x)
FirstN(q, n) == IF Len(q) > n THEN SubSeq(q, 1, n) ELSE q

\* C12: after a successful launch the recently-launched list has at most 10
\* entries, no title twice and the launched title first; a title that was in
\* the list has moved to the front with the others in their order, a new
\* title has pushed the others back and, when they were 10, the oldest out.
\* (A launch whose write of the list failed leaves the list as it was.)
C12_LatestMostRecentFirst ==
    [][\A i \in DOMAIN tasks :
         IsSetRunning(i) =>
           \/ latest' = latest
           \/ /\ Len(latest') <= 10
              /\ NoDup(latest')
              /\ Head(latest') = tasks[i].title
              /\ Tail(latest') = IF InSeq(latest, tasks[i].title)
                                 THEN Without(latest, tasks[i].title)
                                 ELSE FirstN(latest, 9)]_vars

\* --------------------------------------------------------------------- C13
\* C13: right after save_process has persisted a record, get_game_process of
\* its title returns that record (the latest pid), also when the registry
\* held an earlier record of the title.
C13_LookupReturnsLatest ==
    [][\A i \in DOMAIN tasks :
         (IsSaveWrite(i) /\ tasks'[i].saved) =>
           LookupIn(regFile', tasks[i].title) = Some(tasks[i].process)]_vars

\* --------------------------------------------------------------------- C14
\* C14: when save_process fails after a successful spawn the launch goes on
\* as a success: the failing write changes no status, and the task ends with
\* the title's status Running(record) and returns Launched(title, record),
\* record naming the spawned process; it never ends in Error.
C14_PersistFailureStillLaunched ==
    [][\A i \in DOMAIN tasks :
         /\ (tasks[i].pc = "save_write" /\ tasks'[i] # tasks[i]) =>
              /\ tasks'[i].pc = "latest"
              /\ tasks'[i].process = tasks[i].process
              /\ running_games' = running_games
              /\ ~tasks'[i].saved => regFile' = regFile
         /\ (tasks[i].pc = "latest" /\ ~tasks[i].saved /\ tasks'[i] # tasks[i]) =>
              /\ tasks'[i].pc = "done"
              /\ tasks'[i].msg = Launched(tasks[i].title, tasks[i].process)
              /\ StatusIn(running_games', tasks[i].title) = Running(tasks[i].process)
              /\ tasks[i].process.game_title = tasks[i].title]_vars

\* The launch of a has returned Launched and a is Running with its process
\* alive, while the registry file was never written
C14_Witness ==
    /\ AllDone(1)
    /\ tasks[1].msg.tag = "Launched"
    /\ tasks[1].msg.title = "a"
    /\ get_status("a") = Running(tasks[1].msg.process)
    /\ tasks[1].msg.process.main_pid \in alive
    /\ regFile = FileMissing

\* --------------------------------------------------------------------- C15
\* C15: a registry file with malformed content is an empty registry to every
\* operation that reads it: the lookup finds no record, save_process starts
\* from no records, and remove_process returns no error.
C15_MalformedIsEmpty ==
    [][regFile.kind = "malformed" =>
         /\ \A t \in Titles : get_game_process(t) = LookupIn(FileJson(<<>>), t)
         /\ \A i \in DOMAIN tasks :
              (tasks[i].pc = "save_read" /\ tasks'[i] # tasks[i]) =>
                tasks'[i].procs = SaveRead(FileJson(<<>>))
         /\ (ui.pc = "unmap" /\ ui' # ui) => (ui'.pc # "rm_write" => ui'.rm = Ok)]_vars

\* --------------------------------------------------------------------- C16
\* The order C16 states: prefix directory, logs directory, launcher binary,
\* runner validation, spawn
C16_Order == <<"prefix", "logs", "umu", "runner", "spawn">>

\* The message launch_game surfaces for a failure of the step
C16_Message(step, title) ==
    IF step = "prefix" THEN <<"Failed to create prefix: ", title>>
    ELSE IF step = "logs" THEN <<"Failed to create logs directory">>
    ELSE IF step = "umu" THEN <<"umu-run not found. Please install UMU-Launcher.">>
    ELSE IF step = "runner"
         THEN <<"Runner '", title, "' is not installed. Please install it via Proton Manager.">>
    ELSE <<"Failed to launch game: ", title>>

\* C16: launch runs its steps in the order prefix directory, logs directory,
\* launcher binary, runner validation, spawn.  A launch that fails has run
\* the steps up to the failing one and none after it, ends with that step's
\* error and has put no process into the process table; a launch that
\* spawns has run all five.  A failed launch is not retried: its task has
\* returned, starts no other task and stays as it is.
C16_LaunchStepsInOrder ==
    [][\A i \in DOMAIN tasks :
         /\ IsLaunchFailed(i) =>
              LET ran == tasks'[i].ran IN
              /\ ran # <<>>
              /\ Len(ran) <= Len(C16_Order)
              /\ \A k \in DOMAIN ran :
                   /\ ran[k].step = C16_Order[k]
                   /\ ran[k].ok = (k < Len(ran))
              /\ tasks'[i].msg =
                   LaunchFailed(tasks[i].title, C16_Message(ran[Len(ran)].step, tasks[i].title))
              /\ StatusIn(running_games', tasks[i].title) =
                   Error(C16_Message(ran[Len(ran)].step, tasks[i].title))
              /\ alive' = alive
              /\ Len(tasks') = Len(tasks)
         /\ IsSpawn(i) =>
              /\ tasks'[i].ran = [k \in DOMAIN C16_Order |-> StepRan(C16_Order[k], TRUE)]
              /\ Cardinality(alive' \ alive) = 1
         /\ (tasks[i].pc = "launch" /\ tasks'[i] # tasks[i]) =>
              (IsLaunchFailed(i) \/ IsSpawn(i))
         /\ tasks[i].pc = "done" => tasks'[i] = tasks[i]]_vars

\* A launch of a has failed at the runner validation, after the two
\* directories and the launcher binary: no process was spawned
C16_Witness ==
    /\ AllDone(1)
    /\ tasks[1].ran = <<StepRan("prefix", TRUE), StepRan("logs", TRUE),
                        StepRan("umu", TRUE), StepRan("runner", FALSE)>>
    /\ tasks[1].msg.tag = "LaunchFailed"
    /\ get_status("a").tag = "Error"
    /\ alive = {}

\* --------------------------------------------------------------------- C17
\* C17: when the spawn itself fails, the message in the Error status and in
\* the LaunchFailed result contains the underlying OS error, not only the
\* context launch adds.
C17_SpawnErrorKeepsOsError ==
    [][\A i \in DOMAIN tasks :
         (IsLaunchFailed(i) /\ tasks'[i].ran[Len(tasks'[i].ran)].step = "spawn") =>
           /\ InSeq(tasks'[i].msg.error, "os error")
           /\ InSeq(StatusIn(running_games', tasks[i].title).msg, "os error")]_vars

\* --------------------------------------------------------------------- C18
\* C18: a freshly created controller, whatever the registry file holds,
\* reports NotRunning for every title, and neither creating it nor what it
\* does before the first launch request (status queries, terminations,
\* sweeps) modifies the registry file.
C18_FreshControllerForgets ==
    [][tasks' = <<>> =>
         /\ \A t \in Titles :
              /\ get_status(t) = NotRunning
              /\ StatusIn(running_games', t) = NotRunning
         /\ regFile' = regFile]_vars

\* The registry holds a record of a from an earlier run; the new controller
\* has answered a termination of a with "Game is not running"
C18_Witness ==
    /\ tasks = <<>>
    /\ regFile = FileJson(<<GameProcess("a", 1)>>)
    /\ get_status("a") = NotRunning
    /\ ui.pc = "ret"
    /\ ui.op = "terminate"
    /\ ui.title = "a"
    /\ ui.result = Err(<<"Game is not running">>)

\* --------------------------------------------------------------------- C19
\* A launch is suspended in its directory creation or its spawn
LaunchSuspended == \E i \in DOMAIN tasks : tasks[i].pc = "launch"

C20_TitlesIndependent ==
    [][\A b \in Titles :
         StatusIn(running_games', b) # StatusIn(running_games, b) =>
           \/ IsLaunchRequest /\ tasks'[Len(tasks')].title = b
           \/ /\ ~IsLaunchRequest
              /\ \E i \in DOMAIN tasks :
                   /\ tasks'[i] # tasks[i]
                   /\ tasks[i].title = b
                   /\ ui' = ui
           \/ /\ ui.pc = "unmap"
              /\ ui' # ui
              /\ ui.title = b
              /\ tasks' = tasks]_vars

\* terminate_game(a) has returned Ok and a is NotRunning, while b, launched
\* in the same run, is Running as before
C20_Witness ==
    /\ AllDone(2)
    /\ ui.pc = "ret"
    /\ ui.op = "terminate"
    /\ ui.title = "a"
    /\ ui.result = Ok
    /\ get_status("a") = NotRunning
    /\ get_status("b").tag = "Running"
    /\ get_status("b").process.game_title = "b"

\* ---------------------------------------------------------------- C21
\* A step that takes a title out of Launching is the return of a launch task
\* of that title, and it leaves Running or Error; a task that has not
\* returned is neither dropped nor changed but by its own steps forward.
TaskTitle(t) == IF t.pc \in {"done", "delivered"} THEN t.msg.title ELSE t.title

LaunchNotCancelled ==
    /\ \A t \in Titles :
         (get_status(t) = Launching /\ StatusIn(running_games', t) # Launching) =>
           /\ StatusIn(running_games', t).tag \in {"Running", "Error"}
           /\ \E i \in DOMAIN tasks :
                /\ tasks[i].pc # "done"
                /\ tasks[i].title = t
                /\ tasks'[i].pc = "done"
    /\ \A i \in DOMAIN tasks :
         /\ i \in DOMAIN tasks'
         /\ tasks'[i] # tasks[i] =>
              /\ tasks[i].pc # "done"
              /\ tasks'[i].pc # "launch"
              /\ TaskTitle(tasks'[i]) = tasks[i].title

\* C21: every accepted launch request runs to completion.  With the launch
\* task scheduled fairly, a title whose status is Launching comes to have
\* status Running or Error, and no step in between cancels the launch.
C21_LaunchRunsToCompletion ==
    /\ \A t \in Titles :
         (get_status(t) = Launching) ~> (get_status(t).tag \in {"Running", "Error"})
    /\ [][LaunchNotCancelled]_vars

\* A launch has returned with Running after terminate_game was asked for the
\* title, and rejected, while it was Launching
C21_Witness ==
    /\ ui.pc = "ret"
    /\ ui.op = "terminate"
    /\ ui.result = WrongStateError("Launching")
    /\ Len(tasks) = 1
    /\ tasks[1].pc = "done"
    /\ tasks[1].msg.title = ui.title
    /\ get_status(ui.title).tag = "Running"

\* ---------------------------------------------------------------- C22
\* C22: registry writes are unlocked whole-file read-modify-writes and the
\* last writer wins.  A write of save_process that succeeds leaves the file
\* holding what that task read, earlier, plus its own record, whatever the
\* file holds at the time of the write; C22_Witness is the lost record.
C22_LastWriterWins ==
    [][\A i \in DOMAIN tasks :
         (IsSaveWrite(i) /\ tasks'[i].saved) =>
           regFile' = FileJson(Append(tasks[i].procs, tasks[i].process))]_vars

\* Launches of a and of b have both returned Launched, both their
\* save_process calls returned Ok, both processes are alive and both titles
\* are Running, and the registry holds the record of one of them only
C22_Witness ==
    /\ AllDone(2)
    /\ tasks[1].msg.tag = "Launched" /\ tasks[2].msg.tag = "Launched"
    /\ tasks[1].saved /\ tasks[2].saved
    /\ tasks[1].msg.title = "a" /\ tasks[2].msg.title = "b"
    /\ get_status("a") = Running(tasks[1].msg.process)
    /\ get_status("b") = Running(tasks[2].msg.process)
    /\ {tasks[1].msg.process.main_pid, tasks[2].msg.process.main_pid} \subseteq alive
    /\ ui.pc = "idle"
    /\ regFile = FileJson(<<tasks[2].msg.process>>)

\* ---------------------------------------------------------------- C23
\* C23: validate_runner(name) is Ok exactly when resolve_runner(name) is
\* empty, or is an absolute path that exists, or is a relative name that
\* exists under the user or the system compatibility-tools directory; else
\* it is NotInstalled with the name it was given.  The name that stands for
\* automatic selection is Ok in every filesystem.
C23_ValidateRunner ==
    \A i \in DOMAIN tasks :
      tasks[i].pc = "runner_done" =>
        LET name == tasks[i].name
            fs == tasks[i].fs
            resolved == tasks[i].resolved.value
            absolute == resolved # <<>> /\ resolved[1] = "/"
            found ==
              \/ resolved = <<>>
              \/ absolute /\ resolved \in fs
              \/ /\ ~absolute
                 /\ resolved # <<>>
                 /\ \/ (steam_compat_tools_dir \o resolved) \in fs
                    \/ (SystemCompatDir \o resolved) \in fs
        IN /\ tasks[i].validated.ok <=> found
           /\ ~tasks[i].validated.ok =>
                tasks[i].validated = [ok |-> FALSE, msg |-> [tag |-> "NotInstalled", name |-> name]]
           /\ name = UMU_PROTON_LATEST => tasks[i].validated.ok

\* A build that is there in the system directory only has been validated
C23_Witness ==
    /\ Len(tasks) = 1
    /\ tasks[1].pc = "runner_done"
    /\ tasks[1].name = <<"GE-Proton9-1">>
    /\ tasks[1].fs = {SystemCompatDir \o <<"GE-Proton9-1">>}
    /\ tasks[1].validated.ok

\* ---------------------------------------------------------------- C24
\* C24: resolve_runner never fails.  The automatic name gives the empty
\* string, the two other latest-build names their aliases, the system
\* Proton's name its absolute path when that path exists, and every other
\* name (the system Proton's too when the path is not there) itself.
C24_ResolveRunner ==
    \A i \in DOMAIN tasks :
      tasks[i].pc = "runner_done" =>
        LET name == tasks[i].name
            cachy == <<"/", "usr", "share", "steam", "compatibilitytools.d", "Proton-CachyOS">>
        IN /\ tasks[i].resolved.ok
           /\ tasks[i].resolved.value =
                CASE name = <<"UMU-Proton Latest">> -> <<>>
                  [] name = <<"GE-Proton Latest (default)">> -> <<"Proton-GE Latest">>
                  [] name = <<"Proton-EM Latest">> -> <<"Proton-EM Latest">>
                  [] name = <<"Proton-CachyOS">> /\ cachy \in tasks[i].fs -> cachy
                  [] OTHER -> name

\* The system Proton's name has been resolved where its path is not there
\* but a directory of that name is under the user directory
C24_Witness ==
    /\ Len(tasks) = 1
    /\ tasks[1].pc = "runner_done"
    /\ tasks[1].name = <<"Proton-CachyOS">>
    /\ tasks[1].fs = {steam_compat_tools_dir \o <<"Proton-CachyOS">>}
    /\ tasks[1].resolved = OkOf(<<"Proton-CachyOS">>)

\* ---------------------------------------------------------------- C25
\* The tokens of s, by position: a token starts where a character that is
\* not whitespace is first or follows whitespace, and runs to the last
\* character before the next whitespace or the end.
TokenStarts(s) ==
    {k \in 1..Len(s) : s[k] \notin {" ", "\t"} /\ (k = 1 \/ s[k - 1] \in {" ", "\t"})}
TokenFrom(s, k) ==
    SubSeq(s, k, CHOOSE e \in k..Len(s) :
                   /\ \A j \in k..e : s[j] \notin {" ", "\t"}
                   /\ e = Len(s) \/ s[e + 1] \in {" ", "\t"})
Tokens(s) ==
    [n \in 1..Cardinality(TokenStarts(s)) |->
       TokenFrom(s, CHOOSE k \in TokenStarts(s) :
                      Cardinality({j \in TokenStarts(s) : j < k}) = n - 1)]

\* C25: the argument list is the executable path, then the whitespace-split
\* tokens of launch_arguments in order, then those of game_arguments in
\* order; an empty or all-whitespace string gives no token, no element
\* after the first is empty, and the first is the path, whole.
C25_ArgumentList ==
    \A i \in DOMAIN tasks :
      tasks[i].pc = "args_done" =>
        LET game == tasks[i].game
            args == tasks[i].args
        IN /\ args = <<game.path>> \o Tokens(game.launch_arguments)
                                    \o Tokens(game.game_arguments)
           /\ args[1] = game.path
           /\ \A k \in 2..Len(args) : args[k] # <<>>
           /\ (\A k \in DOMAIN game.launch_arguments :
                  game.launch_arguments[k] \in {" ", "\t"})
              /\ (\A k \in DOMAIN game.game_arguments :
                  game.game_arguments[k] \in {" ", "\t"})
                => args = <<game.path>>

\* The list for a path with a blank in it, launch arguments with a leading
\* and a doubled separator, and game arguments that are whitespace only
C25_Witness ==
    /\ Len(tasks) = 1
    /\ tasks[1].pc = "args_done"
    /\ tasks[1].game.path = <<"g", " ", "x">>
    /\ tasks[1].game.launch_arguments = <<"-", " ", "\t">>
    /\ tasks[1].game.game_arguments = <<" ", "\t">>
    /\ tasks[1].args = <<(<<"g", " ", "x">>), (<<"-">>)>>

\* ---------------------------------------------------------------- C26
\* C26: where setup_environment succeeds, the environment has WINEPREFIX
\* with the descriptor's prefix and GAMEID with its game id, and it has
\* PROTONPATH exactly when the resolved runner is not empty, with the
\* resolved runner as the value.
C26_PrefixGameIdRunner ==
    \A i \in DOMAIN tasks :
      (tasks[i].pc = "env_done" /\ tasks[i].result.ok) =>
        LET env == tasks[i].result.value
            game == tasks[i].game
            resolved == resolve_runner(tasks[i].sys.fs, game.runner).value
        IN /\ "WINEPREFIX" \in DOMAIN env /\ env["WINEPREFIX"] = game.prefix
           /\ "GAMEID" \in DOMAIN env /\ env["GAMEID"] = game.gameid
           /\ "PROTONPATH" \in DOMAIN env <=> resolved # <<>>
           /\ "PROTONPATH" \in DOMAIN env => env["PROTONPATH"] = resolved

\* An environment has been built for the system Proton, which resolves to
\* its absolute path
C26_Witness ==
    /\ Len(tasks) = 1
    /\ tasks[1].pc = "env_done"
    /\ tasks[1].result.ok
    /\ tasks[1].game.runner = <<"Proton-CachyOS">>
    /\ tasks[1].result.value["PROTONPATH"] = SystemCompatDir \o <<"Proton-CachyOS">>

\* ---------------------------------------------------------------- C27
\* What each of the three toggles adds when it is enabled and its helper is
\* found: the variables and their values
OverlayAdds(sys, game) ==
    IF game.mangohud /\ sys.mangohud # None THEN {<<"MANGOHUD", "1">>} ELSE {}
SchedulerAdds(sys, game) ==
    IF game.gamemode /\ sys.gamemoderun # None
    THEN {<<"LD_PRELOAD", sys.gamemoderun[1]>>} ELSE {}
FrameGenAdds(sys, game) ==
    IF game.lossless_enabled /\ sys.lossless_dll # None
    THEN {<<"WINEDLLOVERRIDES", "dxgi=n">>, <<"LD_PRELOAD", sys.lossless_dll[1]>>}
    ELSE {}
ToggleAdds(sys, game) ==
    OverlayAdds(sys, game) \cup SchedulerAdds(sys, game) \cup FrameGenAdds(sys, game)
ToggleVariables == {"MANGOHUD", "LD_PRELOAD", "WINEDLLOVERRIDES"}

\* C27: a performance-overlay, scheduler-hint or frame-generation toggle
\* that is disabled, or enabled with its helper not found, adds no variable
\* and does not make setup_environment fail: setup fails only for the
\* runner, and a variable of the three toggles is in the environment only
\* if a toggle that is enabled with its helper found adds it, with a value
\* that such a toggle gives it.
C27_MissingHelperIsNoOp ==
    \A i \in DOMAIN tasks :
      tasks[i].pc = "env_done" =>
        LET sys == tasks[i].sys
            game == tasks[i].game
        IN /\ tasks[i].result.ok <=> validate_runner(sys.fs, game.runner).ok
           /\ tasks[i].result.ok =>
                \A key \in ToggleVariables \cap DOMAIN tasks[i].result.value :
                  <<key, tasks[i].result.value[key]>> \in ToggleAdds(sys, game)

\* The three toggles are enabled, none of the helpers is found, and the
\* environment has been built without a variable of theirs
C27_Witness ==
    /\ Len(tasks) = 1
    /\ tasks[1].pc = "env_done"
    /\ tasks[1].game.mangohud /\ tasks[1].game.gamemode /\ tasks[1].game.lossless_enabled
    /\ tasks[1].sys.mangohud = None
    /\ tasks[1].sys.gamemoderun = None
    /\ tasks[1].sys.lossless_dll = None
    /\ tasks[1].result.ok
    /\ ToggleVariables \cap DOMAIN tasks[1].result.value = {}

C30_MissingFileIsEmpty ==
    [][~FileExists(regFile) =>
         /\ \A t \in Titles : get_game_process(t) = None
         /\ (ui.pc = "unmap" /\ ui' # ui) => (ui'.rm = Ok /\ regFile' = regFile)
         /\ \A i \in DOMAIN tasks :
              IsSaveWrite(i) =>
                \/ tasks'[i].saved /\ regFile' = FileJson(<<tasks[i].process>>)
                \/ regFile.kind = "missing" /\ ~tasks'[i].saved /\ regFile' = regFile]_vars

\* ---------------------------------------------------------------- C31
\* C31: save_process creates the registry file's parent directory if it is
\* not there.  With neither the file nor its directory, the write of
\* save_process after a spawn that succeeded returns Ok and the registry
\* then holds the record.
C31_PersistCreatesDirectory ==
    [][\A i \in DOMAIN tasks :
         (IsSaveWrite(i) /\ regFile.kind = "nodir") =>
           /\ tasks'[i].saved
           /\ HasRecord(regFile', tasks[i].title, tasks[i].process.main_pid)]_vars

\* ---------------------------------------------------------------- C32
\* The records of the title in the file f, in order
RecordsOf(f, title) ==
    IF f.kind = "json"
    THEN LET OfTitle(p) == p.game_title = title IN SelectSeq(f.procs, OfTitle)
    ELSE <<>>

\* The step is one of a call of check_processes after its scan
IsSweepStep == ui.pc \in {"unmap", "rm_write"} /\ ui.op = "sweep" /\ ui' # ui

\* The scan's result is the Running titles whose main_pid is not alive, each
\* once
SweepResultExact ==
    IsSweepScan =>
      /\ \A t \in Titles : RunningDead(t) <=> InSeq(ui'.dead, t)
      /\ NoDup(ui'.dead)

\* C32 as stated: check_processes returns exactly the Running titles whose
\* main_pid is not alive at the scan, each once, and no step of it changes
\* the status or the registry records of a title that was not one of them.
C32_SweepFrame ==
    [][/\ SweepResultExact
       /\ IsSweepStep =>
            \A t \in Titles :
              ~InSeq(ui.dead, t) =>
                /\ StatusIn(running_games', t) = StatusIn(running_games, t)
                /\ RecordsOf(regFile', t) = RecordsOf(regFile, t)]_vars

\* C32, amended: the result is as stated and no step of the call changes the
\* status of a title that is not in it.  The registry is rewritten whole
\* from what remove_process read: the records it read of the other titles
\* are kept, in order, and a record that a launch wrote between the read and
\* the write is not.
C32_SweepFrameOfRead ==
    [][/\ SweepResultExact
       /\ IsSweepStep =>
            /\ \A t \in Titles :
                 ~InSeq(ui.dead, t) =>
                   StatusIn(running_games', t) = StatusIn(running_games, t)
            /\ ui.pc = "unmap" => regFile' = regFile
            /\ ui.pc = "rm_write" =>
                 \/ regFile' = regFile
                 \/ /\ regFile'.kind = "json"
                    /\ \A t \in Titles :
                         RecordsOf(regFile', t) =
                           IF t = ui.title THEN <<>> ELSE RecordsOf(FileJson(ui.procs), t)]_vars

\* The sweep has found a dead and returned it, and b, Running with a live
\* pid, has its status and its record
C32_Witness ==
    /\ ui.pc = "ret"
    /\ ui.op = "sweep"
    /\ ui.dead = <<"a">>
    /\ AllDone(2)
    /\ get_status("a") = NotRunning
    /\ get_status("b").tag = "Running"
    /\ get_status("b").process.main_pid \in alive
    /\ RecordsOf(regFile, "b") = <<get_status("b").process>>
    /\ RecordsOf(regFile, "a") = <<>>

\* ---------------------------------------------------------------- C33
\* C33: the sweep removes a title only while its status is still Running
\* with the pid that is not alive.  A status that a launch task of the title
\* has recorded since the scan is not taken out of the map by the removal
\* step of on_process_exited.
C33_SweepRemovesOnlyDead ==
    [][(IsUnmap("sweep")
          /\ StatusIn(running_games', ui.title) # StatusIn(running_games, ui.title)) =>
         RunningDead(ui.title)]_vars

\* ---------------------------------------------------------------- C34
\* C34: a status Running(record) stays until a sweep that found the
\* record's main_pid not alive removes the title, or terminate_game for the
\* title has sent its signal and removes it.  No other step, a launch
\* request for the title or the return of a launch task of it among them,
\* replaces or drops the record.
C34_RunningStays ==
    [][\A t \in Titles :
         (StatusIn(running_games, t).tag = "Running"
            /\ StatusIn(running_games', t) # StatusIn(running_games, t)) =>
           /\ ui.pc = "unmap"
           /\ ui.title = t
           /\ StatusIn(running_games', t) = NotRunning
           /\ ui.op = "sweep" => RunningDead(t)]_vars

\* ---------------------------------------------------------------- C35
\* C35: the status the window shows follows the controller.  When update is
\* not inside a handler and no message of a launch task of the title waits
\* to be handled, launch_status[title] is get_status(title): Launching
\* after a launch request, NotRunning after a terminate_game that succeeded.
C35_ShownFollowsController ==
    \A t \in Titles :
      (/\ ui.pc = "idle"
       /\ \A i \in DOMAIN tasks : tasks[i].pc = "done" => tasks[i].msg.title # t) =>
        launch_status[t] = get_status(t)

\* ---------------------------------------------------------------- C36
\* C36: the registry is reconciled with the process table.  A record whose
\* main_pid is not alive is in time removed by the periodic sweep, be it a
\* record that a previous run wrote or one of a title whose status is not
\* Running.
C36_DeadRecordsRemoved ==
    \A t \in Titles : \A pid \in Pids :
      (HasRecord(regFile, t, pid) /\ pid \notin alive)
        ~> ~(HasRecord(regFile, t, pid) /\ pid \notin alive)

\* ---------------------------------------------------------------- C37
\* The records of f that are not of the title, in order
RecordsNotOf(f, title) ==
    LET Other(p) == p.game_title # title IN SelectSeq(f.procs, Other)

Range(q) == {q[k] : k \in DOMAIN q}

\* C37: remove_process(title) that returns Ok on a registry that parses
\* leaves no record of the title and the records of the other titles as
\* they were, in their order; a second call for the same title changes
\* nothing more; and a call for a title that has no record leaves the set of
\* records as it was.
C37_RemoveProcess ==
    [][(ui'.pc = "removed" /\ ui'.result = Ok) =>
         /\ regFile'.kind = "json"
         /\ RecordsOf(regFile', ui'.title) = <<>>
         /\ regFile'.procs = RecordsNotOf(regFile, ui'.title)
         /\ (ui.pc = "removed" /\ ui.result = Ok /\ ui.title = ui'.title) =>
              regFile' = regFile
         /\ RecordsOf(regFile, ui'.title) = <<>> =>
              Range(regFile'.procs) = Range(regFile.procs)]_vars

\* The second of two calls for a has returned Ok on a registry that had two
\* records of a around one of b
C37_Witness ==
    /\ ui.pc = "removed"
    /\ ui.n = 2
    /\ ui.title = "a"
    /\ ui.result = Ok
    /\ regFile = FileJson(<<GameProcess("b", 1)>>)

\* ---------------------------------------------------------------- C38
\* The launch task of the latest launch_game(title): no later task of the title
LatestLaunch(i, title) ==
    /\ TaskTitle(tasks[i]) = title
    /\ \A j \in DOMAIN tasks : j > i => TaskTitle(tasks[j]) # title

\* C38: the step of launch_game that starts the launch task of a title leaves
\* the title Launching, and a step that takes a title out of Launching is
\* the step in which the task of that launch, the latest one of the title,
\* records its outcome.
C38_LaunchingUntilOutcome ==
    [][\A t \in Titles :
         /\ (Len(tasks') = Len(tasks) + 1 /\ tasks'[Len(tasks')].title = t) =>
              StatusIn(running_games', t) = Launching
         /\ (get_status(t) = Launching /\ StatusIn(running_games', t) # Launching) =>
              \E i \in DOMAIN tasks :
                /\ LatestLaunch(i, t)
                /\ tasks[i].pc # "done"
                /\ tasks'[i].pc = "done"]_vars

====
